---- MODULE Spec2Model ----
(***************************************************************************)
(* CktGraph (src/flow/cpp/magical_flow/src/db/CktGraph.h): the entity      *)
(* store of one hierarchy level, its floorplan data and the single-slot    *)
(* backup/restore checkpoint.                                              *)
(*                                                                         *)
(* Entities are modelled by their contents: a CktNode and a Pin by one     *)
(* integer (0 for a default-constructed one, 1 once written through the    *)
(* reference node(idx)/pin(idx) returns), a Net by the x coordinate of its *)
(* IO shape.  Layout is modelled by the xLo of its boundary, the only part *)
(* of it CktGraph.h reads.  GdsData and TechDB are opaque values.          *)
(***************************************************************************)
EXTENDS Integers, Sequences, FiniteSets, TLC

\* ---- bounds of the model ----
MaxOps == 3          \* Spec: calls on the graph in one behaviour
MaxMuts == 2         \* SpecCheckpoint: calls other than backup()/restore()
MaxSnaps == 4        \* SpecCheckpoint: backup()/restore() calls
MaxIdx == 1          \* largest index / size passed to an operation

\* ---- program constants ----
LOC_TYPE_MAX == 1000000000
\* the IndexType sentinel ~0, written as the signed value of the same bits
INDEX_TYPE_MAX == -1

Idx == 0..MaxIdx
EntityVals == {1}
Names == {"x", "y"}
Sides == {0, 1}
Axes == {0, 1}
Techs == {"techA"}
CktNames == {"ckt"}
ImplTypes == {"UNSET", "CMOS"}
ImplIdxs == {0}
XLos == {0, LOC_TYPE_MAX}

VARIABLES
    techDB,          \* _techDB
    nodeArray,       \* _nodeArray
    pinArray,        \* _pinArray
    netArray,        \* _netArray
    psubIdxArray,    \* _psubIdxArray
    nwellIdxArray,   \* _nwellIdxArray
    name,            \* _name
    refName,         \* _refName
    layout,          \* _layout
    implType,        \* _implType
    implIdx,         \* _implIdx
    isImplemented,   \* _isImplemented
    flipVertFlag,    \* _flipVertFlag
    fpData,          \* _fpData
    gdsData,         \* _gdsData
    backupSlot,      \* _backup
    status,          \* "ok", or how the last call failed: "assert" (fatal), "out_of_range" (thrown)
    lastOp,          \* the last operation called, its argument and what it returned
    ops,             \* calls other than backup()/restore() so far
    snaps,           \* backup()/restore() calls so far
    hist,            \* history of the checkpoint protocol (not program state)
    limits           \* how many calls the behaviour may make (not program state)

vars == <<techDB, nodeArray, pinArray, netArray, psubIdxArray, nwellIdxArray, name,
          refName, layout, implType, implIdx, isImplemented, flipVertFlag, fpData,
          gdsData, backupSlot, status, lastOp, ops, snaps, hist, limits>>

storeVars == <<nodeArray, pinArray, netArray, psubIdxArray, nwellIdxArray>>
snapScalars == <<layout, isImplemented, flipVertFlag, gdsData>>
implVars == <<implType, implIdx>>
nameVars == <<name, refName>>

\* ---- default-constructed values ----
DefaultNode == 0
DefaultPin == 0
DefaultNet == 0
DefaultGds == 0
DefaultLayout == [xLo |-> LOC_TYPE_MAX]
NoAssignment == -1
DefaultFpData ==
    [boundary |-> <<0, 0, 0, 0>>, isBoundarySet |-> FALSE,
     netNameToAssignMap |-> [n \in {} |-> 0], isNetAssignmentSet |-> FALSE]

\* the fields backup() copies and restore() exchanges, as one record
Live ==
    [nodeArray |-> nodeArray, pinArray |-> pinArray, netArray |-> netArray,
     psubIdxArray |-> psubIdxArray, nwellIdxArray |-> nwellIdxArray,
     layout |-> layout, isImplemented |-> isImplemented,
     flipVertFlag |-> flipVertFlag, gdsData |-> gdsData]

\* struct CktGraphBackup: the containers and class-type members are
\* default-constructed; the two bools have no initializer, so their value in
\* a default-initialized CktGraph is indeterminate.
BackupInit(b1, b2) ==
    [nodeArray |-> <<>>, pinArray |-> <<>>, netArray |-> <<>>,
     psubIdxArray |-> <<>>, nwellIdxArray |-> <<>>,
     layout |-> DefaultLayout, isImplemented |-> b1,
     flipVertFlag |-> b2, gdsData |-> DefaultGds]

\* the zero-valued default state of the snapshotted fields
ZeroState == BackupInit(FALSE, FALSE)

NoIdx == [allocateNode |-> -1, allocatePin |-> -1, allocateNet |-> -1]

HistInit ==
    [nBackups |-> 0,            \* backup() calls so far, counted up to 2
     atBackup |-> ZeroState,    \* Live at the latest backup()
     prevBackup |-> ZeroState,  \* Live at the backup() before that
     restoresSince |-> 0,       \* restore() calls since the latest backup()
     restoreRun |-> 0,          \* restore() calls in a row ending at this state
     preRun |-> ZeroState,      \* Live just before the first restore() of that run
     pairRun |-> 0,             \* backup();restore() pairs in a row ending at this state
     afterPair |-> <<>>,        \* <<Live, backupSlot>> after the first pair of that run
     restAtBackup |-> <<>>,     \* <<techDB, implType, implIdx, fpData>> at the latest backup()
     allocOnly |-> TRUE,        \* only allocateNode/Pin/Net have been called so far
     lastIdx |-> NoIdx,         \* while allocOnly: the index each of them returned last
     flipRun |-> 0,             \* flipVert calls with one axis in a row ending at this state
     preFlip |-> <<>>,          \* <<flipVertFlag, netArray>> before the first flip of that run
     lastSet |-> [n \in {} |-> 0],  \* name -> the side setNetAssignment was last given for it
     validAdds |-> TRUE,        \* every addPsubIdx/addNwellIdx so far got an index below numNets()
     netsShrunk |-> FALSE]      \* a resizeNetArray call has removed a net

Constructed ==
    /\ techDB = "default"
    /\ nodeArray = <<>>
    /\ pinArray = <<>>
    /\ netArray = <<>>
    /\ psubIdxArray = <<>>
    /\ nwellIdxArray = <<>>
    /\ name = ""
    /\ refName = ""
    /\ layout = DefaultLayout
    /\ implType = "UNSET"
    /\ implIdx = INDEX_TYPE_MAX
    /\ isImplemented = FALSE
    /\ flipVertFlag = FALSE
    /\ fpData = DefaultFpData
    /\ gdsData = DefaultGds
    /\ \E b1 \in BOOLEAN, b2 \in BOOLEAN : backupSlot = BackupInit(b1, b2)
    /\ status = "ok"
    /\ lastOp = [op |-> "construct", arg |-> 0, key |-> "", ret |-> 0]
    /\ ops = 0
    /\ snaps = 0
    /\ hist = HistInit

Init ==
    /\ Constructed
    /\ limits = [total |-> MaxOps, ops |-> MaxOps, snaps |-> MaxOps]

\* ---- bookkeeping of a call other than backup()/restore() ----
Min(a, b) == IF a < b THEN a ELSE b

\* a failed assertion is fatal: nothing is called after it
Running == status # "assert"

\* key is the net name a floorplan call was given, "" for the other calls
CalledWith(op, arg, key, ret, st) ==
    /\ Running
    /\ ops + snaps < limits.total
    /\ ops < limits.ops
    /\ limits' = limits
    /\ lastOp' = [op |-> op, arg |-> arg, key |-> key, ret |-> ret]
    /\ status' = st
    /\ ops' = ops + 1
    /\ snaps' = snaps
    /\ hist' = [hist EXCEPT !.restoreRun = 0, !.preRun = ZeroState,
                            !.pairRun = 0, !.afterPair = <<>>,
                            !.allocOnly = @ /\ op \in DOMAIN NoIdx,
                            !.lastIdx = IF hist.allocOnly /\ op \in DOMAIN NoIdx
                                        THEN [@ EXCEPT ![op] = ret] ELSE NoIdx,
                            !.flipRun = IF op # "flipVert" THEN 0
                                        ELSE IF lastOp.op = "flipVert" /\ lastOp.arg = arg
                                             THEN @ + 1 ELSE 1,
                            !.preFlip = IF op # "flipVert" THEN <<>>
                                        ELSE IF lastOp.op = "flipVert" /\ lastOp.arg = arg
                                             THEN @ ELSE <<flipVertFlag, netArray>>,
                            !.lastSet = IF op = "setNetAssignment"
                                        THEN [n \in DOMAIN @ \cup {key} |->
                                                 IF n = key THEN arg ELSE @[n]]
                                        ELSE @,
                            !.validAdds = @ /\ (op \in {"addPsubIdx", "addNwellIdx"}
                                                   => arg < Len(netArray)),
                            !.netsShrunk = @ \/ (op = "resizeNetArray" /\ st = "ok"
                                                    /\ arg < Len(netArray))]

Called(op, arg, ret, st) == CalledWith(op, arg, "", ret, st)

\* ---- EntityStore ----
\* allocateNode returning the size after the push (a 1-based index)
allocateNodeOneBased ==
    /\ nodeArray' = Append(nodeArray, DefaultNode)
    /\ Called("allocateNode", 0, Len(nodeArray'), "ok")
    /\ UNCHANGED <<pinArray, netArray, psubIdxArray, nwellIdxArray, snapScalars,
                   techDB, nameVars, implVars, fpData, backupSlot>>

allocateNode ==
    /\ nodeArray' = Append(nodeArray, DefaultNode)
    /\ Called("allocateNode", 0, Len(nodeArray') - 1, "ok")
    /\ UNCHANGED <<pinArray, netArray, psubIdxArray, nwellIdxArray, snapScalars,
                   techDB, nameVars, implVars, fpData, backupSlot>>

allocatePin ==
    /\ pinArray' = Append(pinArray, DefaultPin)
    /\ Called("allocatePin", 0, Len(pinArray') - 1, "ok")
    /\ UNCHANGED <<nodeArray, netArray, psubIdxArray, nwellIdxArray, snapScalars,
                   techDB, nameVars, implVars, fpData, backupSlot>>

allocateNet ==
    /\ netArray' = Append(netArray, DefaultNet)
    /\ Called("allocateNet", 0, Len(netArray') - 1, "ok")
    /\ UNCHANGED <<nodeArray, pinArray, psubIdxArray, nwellIdxArray, snapScalars,
                   techDB, nameVars, implVars, fpData, backupSlot>>

\* allocatePsub putting the new index on the nwell list
allocatePsubAsNwell ==
    /\ netArray' = Append(netArray, DefaultNet)
    /\ nwellIdxArray' = Append(nwellIdxArray, Len(netArray') - 1)
    /\ Called("allocatePsub", 0, Len(netArray') - 1, "ok")
    /\ UNCHANGED <<nodeArray, pinArray, psubIdxArray, snapScalars,
                   techDB, nameVars, implVars, fpData, backupSlot>>

allocatePsub ==
    /\ netArray' = Append(netArray, DefaultNet)
    /\ psubIdxArray' = Append(psubIdxArray, Len(netArray') - 1)
    /\ Called("allocatePsub", 0, Len(netArray') - 1, "ok")
    /\ UNCHANGED <<nodeArray, pinArray, nwellIdxArray, snapScalars,
                   techDB, nameVars, implVars, fpData, backupSlot>>

\* allocateNwell recording the size after the allocation instead of the index
allocateNwellOneBased ==
    /\ netArray' = Append(netArray, DefaultNet)
    /\ nwellIdxArray' = Append(nwellIdxArray, Len(netArray'))
    /\ Called("allocateNwell", 0, Len(netArray') - 1, "ok")
    /\ UNCHANGED <<nodeArray, pinArray, psubIdxArray, snapScalars,
                   techDB, nameVars, implVars, fpData, backupSlot>>

allocateNwell ==
    /\ netArray' = Append(netArray, DefaultNet)
    /\ nwellIdxArray' = Append(nwellIdxArray, Len(netArray') - 1)
    /\ Called("allocateNwell", 0, Len(netArray') - 1, "ok")
    /\ UNCHANGED <<nodeArray, pinArray, psubIdxArray, snapScalars,
                   techDB, nameVars, implVars, fpData, backupSlot>>

\* addPsubIdx putting the index in front of the list
addPsubIdxFront(netIdx) ==
    /\ psubIdxArray' = <<netIdx>> \o psubIdxArray
    /\ Called("addPsubIdx", netIdx, 0, "ok")
    /\ UNCHANGED <<nodeArray, pinArray, netArray, nwellIdxArray, snapScalars,
                   techDB, nameVars, implVars, fpData, backupSlot>>

addPsubIdx(netIdx) ==
    /\ psubIdxArray' = Append(psubIdxArray, netIdx)
    /\ Called("addPsubIdx", netIdx, 0, "ok")
    /\ UNCHANGED <<nodeArray, pinArray, netArray, nwellIdxArray, snapScalars,
                   techDB, nameVars, implVars, fpData, backupSlot>>

addNwellIdx(netIdx) ==
    /\ nwellIdxArray' = Append(nwellIdxArray, netIdx)
    /\ Called("addNwellIdx", netIdx, 0, "ok")
    /\ UNCHANGED <<nodeArray, pinArray, netArray, psubIdxArray, snapScalars,
                   techDB, nameVars, implVars, fpData, backupSlot>>

\* the assertion the other way round: only growing is allowed
ResizeAllowedGrow(n, size) == n >= size

\* AssertMsg(n <= size): what the resize functions assert before resizing
ResizeAllowed(n, size) == n <= size

\* a resize that rebuilds the vector from default-constructed elements
ResizeFresh(arr, n, dflt) == [i \in 1..n |-> dflt]

\* std::vector::resize(n): keeps the first n elements, appends
\* default-constructed ones up to n
Resize(arr, n, dflt) == [i \in 1..n |-> IF i <= Len(arr) THEN arr[i] ELSE dflt]

resizeNodeArray(numNodes) ==
    /\ IF ResizeAllowed(numNodes, Len(nodeArray))
       THEN /\ nodeArray' = Resize(nodeArray, numNodes, DefaultNode)
            /\ Called("resizeNodeArray", numNodes, 0, "ok")
       ELSE /\ nodeArray' = nodeArray
            /\ Called("resizeNodeArray", numNodes, 0, "assert")
    /\ UNCHANGED <<pinArray, netArray, psubIdxArray, nwellIdxArray, snapScalars,
                   techDB, nameVars, implVars, fpData, backupSlot>>

resizePinArray(numPins) ==
    /\ IF ResizeAllowed(numPins, Len(pinArray))
       THEN /\ pinArray' = Resize(pinArray, numPins, DefaultPin)
            /\ Called("resizePinArray", numPins, 0, "ok")
       ELSE /\ pinArray' = pinArray
            /\ Called("resizePinArray", numPins, 0, "assert")
    /\ UNCHANGED <<nodeArray, netArray, psubIdxArray, nwellIdxArray, snapScalars,
                   techDB, nameVars, implVars, fpData, backupSlot>>

resizeNetArray(numNets) ==
    /\ IF ResizeAllowed(numNets, Len(netArray))
       THEN /\ netArray' = Resize(netArray, numNets, DefaultNet)
            /\ Called("resizeNetArray", numNets, 0, "ok")
       ELSE /\ netArray' = netArray
            /\ Called("resizeNetArray", numNets, 0, "assert")
    /\ UNCHANGED <<nodeArray, pinArray, psubIdxArray, nwellIdxArray, snapScalars,
                   techDB, nameVars, implVars, fpData, backupSlot>>

\* std::vector::at(i): in range
InRange(arr, i) == i < Len(arr)

\* node(idx), pin(idx), net(idx) return a mutable reference; the caller stores v
\* through it (storing the value already there is a plain read).
node(nodeIdx, v) ==
    /\ IF InRange(nodeArray, nodeIdx)
       THEN /\ nodeArray' = [nodeArray EXCEPT ![nodeIdx + 1] = v]
            /\ Called("node", nodeIdx, nodeIdx, "ok")
       ELSE /\ nodeArray' = nodeArray
            /\ Called("node", nodeIdx, 0, "out_of_range")
    /\ UNCHANGED <<pinArray, netArray, psubIdxArray, nwellIdxArray, snapScalars,
                   techDB, nameVars, implVars, fpData, backupSlot>>

pin(pinIdx, v) ==
    /\ IF InRange(pinArray, pinIdx)
       THEN /\ pinArray' = [pinArray EXCEPT ![pinIdx + 1] = v]
            /\ Called("pin", pinIdx, pinIdx, "ok")
       ELSE /\ pinArray' = pinArray
            /\ Called("pin", pinIdx, 0, "out_of_range")
    /\ UNCHANGED <<nodeArray, netArray, psubIdxArray, nwellIdxArray, snapScalars,
                   techDB, nameVars, implVars, fpData, backupSlot>>

net(netIdx, v) ==
    /\ IF InRange(netArray, netIdx)
       THEN /\ netArray' = [netArray EXCEPT ![netIdx + 1] = v]
            /\ Called("net", netIdx, netIdx, "ok")
       ELSE /\ netArray' = netArray
            /\ Called("net", netIdx, 0, "out_of_range")
    /\ UNCHANGED <<nodeArray, pinArray, psubIdxArray, nwellIdxArray, snapScalars,
                   techDB, nameVars, implVars, fpData, backupSlot>>

\* the lookup without the bounds check on the net collection
ClassifiedListOnly(list, nets, k) ==
    IF InRange(list, k)
    THEN [st |-> "ok", idx |-> list[k + 1]]
    ELSE [st |-> "out_of_range", idx |-> 0]

\* _netArray.at(list.at(k)): the index of the net the k-th entry of a
\* classification list denotes, or the out_of_range error of either at()
Classified(list, nets, k) ==
    IF InRange(list, k) /\ InRange(nets, list[k + 1])
    THEN [st |-> "ok", idx |-> list[k + 1]]
    ELSE [st |-> "out_of_range", idx |-> 0]

\* psub(k), nwell(k): the net the k-th entry of the list denotes (its index in ret)
psub(psubIdx) ==
    /\ Called("psub", psubIdx, Classified(psubIdxArray, netArray, psubIdx).idx,
              Classified(psubIdxArray, netArray, psubIdx).st)
    /\ UNCHANGED <<storeVars, snapScalars, techDB, nameVars, implVars, fpData, backupSlot>>

nwell(nwellIdx) ==
    /\ Called("nwell", nwellIdx, Classified(nwellIdxArray, netArray, nwellIdx).idx,
              Classified(nwellIdxArray, netArray, nwellIdx).st)
    /\ UNCHANGED <<storeVars, snapScalars, techDB, nameVars, implVars, fpData, backupSlot>>

\* ---- ImplementationSelector, LayoutBinding, FloorplanAnnotation, TechnologyBinding ----
setIsImpl(impl) ==
    /\ isImplemented' = impl
    /\ Called("setIsImpl", 0, 0, "ok")
    /\ UNCHANGED <<storeVars, layout, flipVertFlag, gdsData,
                   techDB, nameVars, implVars, fpData, backupSlot>>

setImplType(t) ==
    /\ implType' = t
    /\ Called("setImplType", 0, 0, "ok")
    /\ UNCHANGED <<storeVars, snapScalars, techDB, nameVars, implIdx, fpData, backupSlot>>

setImplIdx(i) ==
    /\ implIdx' = i
    /\ Called("setImplIdx", i, 0, "ok")
    /\ UNCHANGED <<storeVars, snapScalars, techDB, nameVars, implType, fpData, backupSlot>>

setName(n) ==
    /\ name' = n
    /\ refName' = n
    /\ Called("setName", 0, 0, "ok")
    /\ UNCHANGED <<storeVars, snapScalars, techDB, implVars, fpData, backupSlot>>

setRefName(n) ==
    /\ refName' = n
    /\ Called("setRefName", 0, 0, "ok")
    /\ UNCHANGED <<storeVars, snapScalars, techDB, name, implVars, fpData, backupSlot>>

setTechDB(t) ==
    /\ techDB' = t
    /\ Called("setTechDB", 0, 0, "ok")
    /\ UNCHANGED <<storeVars, snapScalars, nameVars, implVars, fpData, backupSlot>>

\* layout() returns a mutable reference (parseGDS hands the same reference to
\* the parser); the caller leaves the boundary with xLo = x
layoutWrite(x) ==
    /\ layout' = [xLo |-> x]
    /\ Called("layout", 0, 0, "ok")
    /\ UNCHANGED <<storeVars, isImplemented, flipVertFlag, gdsData,
                   techDB, nameVars, implVars, fpData, backupSlot>>

\* gdsData() returns a mutable reference; the caller stores v through it
gdsDataWrite(v) ==
    /\ gdsData' = v
    /\ Called("gdsData", 0, 0, "ok")
    /\ UNCHANGED <<storeVars, layout, isImplemented, flipVertFlag,
                   techDB, nameVars, implVars, fpData, backupSlot>>

\* Net::flipVert(axis): the reflection of the net's IO shape about x = axis
NetFlipVert(x, axis) == 2 * axis - x

\* flipVert setting the flag instead of inverting it
flipVertSets(axis) ==
    /\ flipVertFlag' = TRUE
    /\ netArray' = [i \in 1..Len(netArray) |-> NetFlipVert(netArray[i], axis)]
    /\ Called("flipVert", axis, 0, "ok")
    /\ UNCHANGED <<nodeArray, pinArray, psubIdxArray, nwellIdxArray, layout,
                   isImplemented, gdsData, techDB, nameVars, implVars, fpData, backupSlot>>

flipVert(axis) ==
    /\ flipVertFlag' = ~flipVertFlag
    /\ netArray' = [i \in 1..Len(netArray) |-> NetFlipVert(netArray[i], axis)]
    /\ Called("flipVert", axis, 0, "ok")
    /\ UNCHANGED <<nodeArray, pinArray, psubIdxArray, nwellIdxArray, layout,
                   isImplemented, gdsData, techDB, nameVars, implVars, fpData, backupSlot>>

setBoundary(xLo, yLo, xHi, yHi) ==
    /\ fpData' = [fpData EXCEPT !.isBoundarySet = TRUE, !.boundary = <<xLo, yLo, xHi, yHi>>]
    /\ Called("setBoundary", 0, 0, "ok")
    /\ UNCHANGED <<storeVars, snapScalars, techDB, nameVars, implVars, backupSlot>>

clearBoundary ==
    /\ fpData' = [fpData EXCEPT !.isBoundarySet = FALSE]
    /\ Called("clearBoundary", 0, 0, "ok")
    /\ UNCHANGED <<storeVars, snapScalars, techDB, nameVars, implVars, backupSlot>>

\* std::map operator[] followed by assignment: insert or overwrite
MapPut(m, k, v) == [n \in DOMAIN m \cup {k} |-> IF n = k THEN v ELSE m[n]]

setNetAssignment(netName, assignStatus) ==
    /\ fpData' = [fpData EXCEPT !.isNetAssignmentSet = TRUE,
                                !.netNameToAssignMap = MapPut(@, netName, assignStatus)]
    /\ CalledWith("setNetAssignment", assignStatus, netName, 0, "ok")
    /\ UNCHANGED <<storeVars, snapScalars, techDB, nameVars, implVars, backupSlot>>

\* clearNetAssignment emptying the mapping as well
clearNetAssignmentErases ==
    /\ fpData' = [fpData EXCEPT !.isNetAssignmentSet = FALSE,
                                !.netNameToAssignMap = [n \in {} |-> 0]]
    /\ Called("clearNetAssignment", 0, 0, "ok")
    /\ UNCHANGED <<storeVars, snapScalars, techDB, nameVars, implVars, backupSlot>>

clearNetAssignment ==
    /\ fpData' = [fpData EXCEPT !.isNetAssignmentSet = FALSE]
    /\ Called("clearNetAssignment", 0, 0, "ok")
    /\ UNCHANGED <<storeVars, snapScalars, techDB, nameVars, implVars, backupSlot>>

\* netAssignment answering "left" for a name that has no entry
NetAssignmentLeft(m, n) == IF n \notin DOMAIN m THEN 0 ELSE m[n]

\* FloorplanData::netAssignment(name) as a function of the map
NetAssignmentOf(m, n) == IF n \notin DOMAIN m THEN NoAssignment ELSE m[n]

netAssignment(n) ==
    /\ CalledWith("netAssignment", 0, n, NetAssignmentOf(fpData.netNameToAssignMap, n), "ok")
    /\ UNCHANGED <<storeVars, snapScalars, techDB, nameVars, implVars, fpData, backupSlot>>

\* ---- SnapshotManager ----
\* the whole object: every data member of CktGraph
Graph ==
    [techDB |-> techDB, nodeArray |-> nodeArray, pinArray |-> pinArray,
     netArray |-> netArray, psubIdxArray |-> psubIdxArray,
     nwellIdxArray |-> nwellIdxArray, name |-> name, refName |-> refName,
     layout |-> layout, implType |-> implType, implIdx |-> implIdx,
     isImplemented |-> isImplemented, flipVertFlag |-> flipVertFlag,
     fpData |-> fpData, gdsData |-> gdsData, backupSlot |-> backupSlot]

SetGraph(g) ==
    /\ techDB' = g.techDB
    /\ nodeArray' = g.nodeArray
    /\ pinArray' = g.pinArray
    /\ netArray' = g.netArray
    /\ psubIdxArray' = g.psubIdxArray
    /\ nwellIdxArray' = g.nwellIdxArray
    /\ name' = g.name
    /\ refName' = g.refName
    /\ layout' = g.layout
    /\ implType' = g.implType
    /\ implIdx' = g.implIdx
    /\ isImplemented' = g.isImplemented
    /\ flipVertFlag' = g.flipVertFlag
    /\ fpData' = g.fpData
    /\ gdsData' = g.gdsData
    /\ backupSlot' = g.backupSlot

\* the nine copy assignments of backup() into _backup
BackupCopies(g) ==
    [g EXCEPT !.backupSlot =
        [nodeArray |-> g.nodeArray, pinArray |-> g.pinArray, netArray |-> g.netArray,
         psubIdxArray |-> g.psubIdxArray, nwellIdxArray |-> g.nwellIdxArray,
         layout |-> g.layout, isImplemented |-> g.isImplemented,
         flipVertFlag |-> g.flipVertFlag, gdsData |-> g.gdsData]]

\* backup() forgets one of the copies: the slot keeps its old nets
BackupResultNoNets(g) ==
    [BackupCopies(g) EXCEPT !.backupSlot.netArray = g.backupSlot.netArray]

\* backup() forgets one of the copies: the slot keeps its old implemented flag
BackupResultNoFlag(g) ==
    [BackupCopies(g) EXCEPT !.backupSlot.isImplemented = g.backupSlot.isImplemented]

\* backup() moving the nodes into the slot instead of copying them
BackupResultMovesNodes(g) == [BackupCopies(g) EXCEPT !.nodeArray = <<>>]

\* the object after backup(): the copies and nothing else
BackupResult(g) == BackupCopies(g)

backup ==
    /\ Running
    /\ ops + snaps < limits.total
    /\ snaps < limits.snaps
    /\ limits' = limits
    /\ SetGraph(BackupResult(Graph))
    /\ lastOp' = [op |-> "backup", arg |-> 0, key |-> "", ret |-> 0]
    /\ status' = "ok"
    /\ snaps' = snaps + 1
    /\ ops' = ops
    /\ hist' = [hist EXCEPT !.nBackups = Min(@ + 1, 2),
                            !.prevBackup = hist.atBackup,
                            !.atBackup = Live,
                            !.restAtBackup = <<techDB, implType, implIdx, fpData>>,
                            !.restoresSince = 0,
                            !.restoreRun = 0,
                            !.preRun = ZeroState,
                            !.pairRun = IF lastOp.op = "restore" THEN @ ELSE 0,
                            !.afterPair = IF lastOp.op = "restore" THEN @ ELSE <<>>,
                            !.allocOnly = FALSE,
                            !.lastIdx = NoIdx,
                            !.flipRun = 0,
                            !.preFlip = <<>>]

\* restore() copies the slot into the live field and keeps the slot
SwapCopy(live, saved) == <<saved, saved>>

\* std::swap of one live field with its copy in the slot: <<new live, new slot>>
Swap(live, saved) == <<saved, live>>

\* the nine std::swap calls of restore()
RestoreSwaps(g) ==
    [g EXCEPT
        !.nodeArray = Swap(g.nodeArray, g.backupSlot.nodeArray)[1],
        !.pinArray = Swap(g.pinArray, g.backupSlot.pinArray)[1],
        !.netArray = Swap(g.netArray, g.backupSlot.netArray)[1],
        !.psubIdxArray = Swap(g.psubIdxArray, g.backupSlot.psubIdxArray)[1],
        !.nwellIdxArray = Swap(g.nwellIdxArray, g.backupSlot.nwellIdxArray)[1],
        !.layout = Swap(g.layout, g.backupSlot.layout)[1],
        !.isImplemented = Swap(g.isImplemented, g.backupSlot.isImplemented)[1],
        !.flipVertFlag = Swap(g.flipVertFlag, g.backupSlot.flipVertFlag)[1],
        !.gdsData = Swap(g.gdsData, g.backupSlot.gdsData)[1],
        !.backupSlot =
            [nodeArray |-> Swap(g.nodeArray, g.backupSlot.nodeArray)[2],
             pinArray |-> Swap(g.pinArray, g.backupSlot.pinArray)[2],
             netArray |-> Swap(g.netArray, g.backupSlot.netArray)[2],
             psubIdxArray |-> Swap(g.psubIdxArray, g.backupSlot.psubIdxArray)[2],
             nwellIdxArray |-> Swap(g.nwellIdxArray, g.backupSlot.nwellIdxArray)[2],
             layout |-> Swap(g.layout, g.backupSlot.layout)[2],
             isImplemented |-> Swap(g.isImplemented, g.backupSlot.isImplemented)[2],
             flipVertFlag |-> Swap(g.flipVertFlag, g.backupSlot.flipVertFlag)[2],
             gdsData |-> Swap(g.gdsData, g.backupSlot.gdsData)[2]]]

\* restore() also puts the implementation type back to its default
RestoreResultResetsImpl(g) == [RestoreSwaps(g) EXCEPT !.implType = "UNSET"]

\* restore() also exchanges the technology binding with a default-constructed one
RestoreResultDropsTech(g) == [RestoreSwaps(g) EXCEPT !.techDB = "default"]

\* the object after restore(): the swaps and nothing else
RestoreResult(g) == RestoreSwaps(g)

\* Assert(_layout.boundary().xLo() == LOC_TYPE_MAX), on the layout restore() made live
RestoreAssert(l) == l.xLo = LOC_TYPE_MAX

restore ==
    /\ Running
    /\ ops + snaps < limits.total
    /\ snaps < limits.snaps
    /\ limits' = limits
    /\ SetGraph(RestoreResult(Graph))
    /\ status' = IF RestoreAssert(layout') THEN "ok" ELSE "assert"
    /\ lastOp' = [op |-> "restore", arg |-> 0, key |-> "", ret |-> 0]
    /\ snaps' = snaps + 1
    /\ ops' = ops
    /\ hist' = [hist EXCEPT !.restoresSince = @ + 1,
                            !.restoreRun = @ + 1,
                            !.preRun = IF hist.restoreRun = 0 THEN Live ELSE @,
                            !.pairRun = IF lastOp.op = "backup" THEN @ + 1 ELSE 0,
                            !.afterPair = IF lastOp.op = "backup"
                                          THEN (IF hist.pairRun = 0 THEN <<Live', backupSlot'>> ELSE @)
                                          ELSE <<>>,
                            !.allocOnly = FALSE,
                            !.lastIdx = NoIdx,
                            !.flipRun = 0,
                            !.preFlip = <<>>]

\* ---- the operations a caller can invoke ----
StoreCall ==
    \/ allocateNode
    \/ allocatePin
    \/ allocateNet
    \/ allocatePsub
    \/ allocateNwell
    \/ \E i \in Idx : addPsubIdx(i)
    \/ \E i \in Idx : addNwellIdx(i)
    \/ \E n \in Idx : resizeNodeArray(n)
    \/ \E n \in Idx : resizePinArray(n)
    \/ \E n \in Idx : resizeNetArray(n)
    \/ \E i \in Idx, v \in EntityVals : node(i, v)
    \/ \E i \in Idx, v \in EntityVals : pin(i, v)
    \/ \E i \in Idx, v \in EntityVals : net(i, v)
    \/ \E k \in Idx : psub(k)
    \/ \E k \in Idx : nwell(k)

OtherCall ==
    \/ \E b \in BOOLEAN : setIsImpl(b)
    \/ \E t \in ImplTypes : setImplType(t)
    \/ \E i \in ImplIdxs : setImplIdx(i)
    \/ \E n \in CktNames : setName(n)
    \/ \E n \in CktNames : setRefName(n)
    \/ \E t \in Techs : setTechDB(t)
    \/ \E x \in XLos : layoutWrite(x)
    \/ \E v \in EntityVals : gdsDataWrite(v)
    \/ \E a \in Axes : flipVert(a)
    \/ setBoundary(0, 0, 1, 1)
    \/ clearBoundary
    \/ \E n \in Names, s \in Sides : setNetAssignment(n, s)
    \/ clearNetAssignment
    \/ \E n \in Names : netAssignment(n)

Next == StoreCall \/ OtherCall \/ backup \/ restore

Spec == Init /\ [][Next]_vars

\* The checkpoint protocol on its own: backup(), restore() and the calls that
\* change a snapshotted field, with a budget that lets two backups and two
\* restores follow one another.
InitCheckpoint ==
    /\ Constructed
    /\ limits = [total |-> MaxMuts + MaxSnaps, ops |-> MaxMuts, snaps |-> MaxSnaps]

SnapshotMutation ==
    \/ allocateNode
    \/ allocatePin
    \/ allocateNet
    \/ allocatePsub
    \/ allocateNwell
    \/ \E i \in Idx : addPsubIdx(i)
    \/ \E i \in Idx : addNwellIdx(i)
    \/ \E b \in BOOLEAN : setIsImpl(b)
    \/ \E x \in XLos : layoutWrite(x)
    \/ \E v \in EntityVals : gdsDataWrite(v)
    \/ \E a \in Axes : flipVert(a)

NextCheckpoint == SnapshotMutation \/ backup \/ restore

SpecCheckpoint == InitCheckpoint /\ [][NextCheckpoint]_vars

\* ---- properties ----
\* a step in which op was called
Step(op) == lastOp'.op = op /\ ops' + snaps' = ops + snaps + 1

\* this state is the one the first restore() after a backup() produced
FirstRestoreAfterBackup ==
    lastOp.op = "restore" /\ hist.nBackups >= 1 /\ hist.restoresSince = 1

AllocOps == {"allocateNode", "allocatePin", "allocateNet", "allocatePsub", "allocateNwell"}
ResizeOps == {"resizeNodeArray", "resizePinArray", "resizeNetArray"}

\* the collection a resize call works on
ResizedArray(op, nodes, pins, nets) ==
    CASE op = "resizeNodeArray" -> nodes
      [] op = "resizePinArray" -> pins
      [] op = "resizeNetArray" -> nets

\* C1: after backup(), any calls that change snapshotted fields, and then
\* restore(), restore() has completed and every snapshotted field has the
\* value it had when backup() was called.
C1_RollbackCompletes ==
    FirstRestoreAfterBackup => (status = "ok" /\ Live = hist.atBackup)

\* C2 as stated: restore() also brings implType, implIdx and the floorplan
\* data back to their values at backup().
C2_SnapshotCoversAll ==
    FirstRestoreAfterBackup =>
        <<implType, implIdx, fpData>> =
            <<hist.restAtBackup[2], hist.restAtBackup[3], hist.restAtBackup[4]>>

\* C2 as amended: implType, implIdx and the floorplan data are not part of
\* the checkpoint; backup() and restore() leave them as they are.
C2_ImplAndFloorplanNotSnapshotted ==
    [][(Step("backup") \/ Step("restore")) => UNCHANGED <<implType, implIdx, fpData>>]_vars

\* a change of implType and of the floorplan data made after backup() is
\* still there after restore()
C2_Witness ==
    /\ FirstRestoreAfterBackup
    /\ implType # hist.restAtBackup[2]

C5_AllocReturnsPreSize ==
    [][/\ Step("allocateNode") =>
            /\ lastOp'.ret = Len(nodeArray)
            /\ Len(nodeArray') = Len(nodeArray) + 1
            /\ UNCHANGED <<pinArray, netArray>>
       /\ Step("allocatePin") =>
            /\ lastOp'.ret = Len(pinArray)
            /\ Len(pinArray') = Len(pinArray) + 1
            /\ UNCHANGED <<nodeArray, netArray>>
       /\ Step("allocateNet") =>
            /\ lastOp'.ret = Len(netArray)
            /\ Len(netArray') = Len(netArray) + 1
            /\ UNCHANGED <<nodeArray, pinArray>>
       /\ \A op \in DOMAIN NoIdx : (Step(op) /\ hist.allocOnly) =>
            lastOp'.ret > hist.lastIdx[op]]_vars

\* the second node was allocated after a pin and got index 1
C5_Witness ==
    /\ hist.allocOnly
    /\ lastOp = [op |-> "allocateNode", arg |-> 0, key |-> "", ret |-> 1]
    /\ Len(pinArray) = 1

\* C6: after a second backup() (in S2, the first was in S1), calls leading to
\* S3 and restores only, the live state is S2 after an odd number of
\* restores and S3 after an even number; S1 comes back only if it equals one
\* of them.
C6_SingleSlot ==
    (hist.nBackups = 2 /\ hist.restoreRun >= 1 /\ hist.restoresSince = hist.restoreRun) =>
        /\ Live = IF hist.restoreRun % 2 = 1 THEN hist.atBackup ELSE hist.preRun
        /\ (Live = hist.prevBackup => hist.prevBackup \in {hist.atBackup, hist.preRun})

\* two backups in different states, a third state, and two restores
C6_Witness ==
    /\ hist.nBackups = 2
    /\ hist.restoreRun = 2
    /\ hist.restoresSince = 2
    /\ hist.atBackup # hist.preRun
    /\ hist.prevBackup \notin {hist.atBackup, hist.preRun}

\* C7: restore() leaves in the slot what was live just before it, so the
\* second of two restores in a row brings back what was live before the
\* first.
C7_RestoreExchanges ==
    [][Step("restore") =>
        /\ backupSlot' = Live
        /\ (hist.restoreRun = 1 => Live' = hist.preRun)]_vars

\* two restores in a row between two different states
C7_Witness ==
    /\ hist.restoreRun = 2
    /\ Live = hist.preRun
    /\ Live # backupSlot

\* C8: backup(); restore(); backup(); restore() leaves the live snapshotted
\* fields and the checkpoint slot as backup(); restore() left them.
C8_PairIdempotent ==
    hist.pairRun >= 2 => <<Live, backupSlot>> = hist.afterPair

\* the pair was run twice on a graph with a net and the implemented flag set
C8_Witness ==
    /\ hist.pairRun = 2
    /\ Len(netArray) >= 1
    /\ isImplemented

\* C9: restore() on a graph that was never backed up completes and leaves the
\* snapshotted fields in the zero-valued default state.
C9_RestoreWithoutBackupGivesZero ==
    (lastOp.op = "restore" /\ hist.nBackups = 0 /\ hist.restoreRun = 1
        /\ hist.restoresSince = 1) =>
        (status = "ok" /\ Live = ZeroState)

\* C10: backup() and restore() leave the technology binding as it is.
C10_TechDBNotSnapshotted ==
    [][(Step("backup") \/ Step("restore")) => techDB' = techDB]_vars

\* a binding attached after backup() is the binding after restore()
C10_Witness ==
    /\ FirstRestoreAfterBackup
    /\ hist.restAtBackup[1] = "default"
    /\ techDB = "techA"

\* C11: flipVert(a) inverts the flip flag, reflects every net of the net
\* collection about x = a and changes nothing else (the checkpoint slot and
\* its nets included); the second of two flipVert(a) calls in a row with one
\* axis brings the flag and every net's geometry back.
C11_FlipVertToggles ==
    [][Step("flipVert") =>
        /\ flipVertFlag' = ~flipVertFlag
        /\ Len(netArray') = Len(netArray)
        /\ \A i \in 1..Len(netArray) : netArray'[i] = 2 * lastOp'.arg - netArray[i]
        /\ UNCHANGED <<nodeArray, pinArray, psubIdxArray, nwellIdxArray, layout,
                       isImplemented, gdsData, techDB, name, refName, implType,
                       implIdx, fpData, backupSlot>>
        /\ (hist.flipRun = 1 /\ lastOp.arg = lastOp'.arg) =>
                <<flipVertFlag', netArray'>> = hist.preFlip]_vars

\* two flips about one axis, of a net that the flip moves
C11_Witness ==
    /\ hist.flipRun = 2
    /\ netArray # <<>>
    /\ netArray[1] # 2 * lastOp.arg - netArray[1]
    /\ <<flipVertFlag, netArray>> = hist.preFlip

\* the classification list an operation works on, and the other one
ClassList(op, psubs, nwells) ==
    IF op \in {"allocatePsub", "addPsubIdx", "psub"} THEN psubs ELSE nwells

OtherClassList(op, psubs, nwells) ==
    IF op \in {"allocatePsub", "addPsubIdx", "psub"} THEN nwells ELSE psubs

\* C12: allocatePsub() (allocateNwell()) returns the number of nets there were
\* before the call, adds one net after the existing ones, appends the returned
\* index as the last entry of the psub (nwell) list, and leaves the other list
\* and the node and pin collections as they were; the returned index is a
\* valid net index.
C12_AllocClassified ==
    [][\A op \in {"allocatePsub", "allocateNwell"} : Step(op) =>
        /\ lastOp'.ret = Len(netArray)
        /\ Len(netArray') = Len(netArray) + 1
        /\ SubSeq(netArray', 1, Len(netArray)) = netArray
        /\ ClassList(op, psubIdxArray', nwellIdxArray')
              = Append(ClassList(op, psubIdxArray, nwellIdxArray), lastOp'.ret)
        /\ OtherClassList(op, psubIdxArray', nwellIdxArray')
              = OtherClassList(op, psubIdxArray, nwellIdxArray)
        /\ UNCHANGED <<nodeArray, pinArray>>
        /\ lastOp'.ret < Len(netArray')]_vars

\* allocatePsub on a graph that has a net already, then allocateNwell
C12_Witness ==
    /\ lastOp.op = "allocateNwell"
    /\ lastOp.ret = 2
    /\ Len(netArray) = 3
    /\ psubIdxArray = <<1>>
    /\ nwellIdxArray = <<2>>

\* C13: addPsubIdx(i) (addNwellIdx(i)) with i a valid net index appends i at
\* position k = the list's length before the call, allocates no net and
\* leaves the other list alone; psub(k) (nwell(k)) then denotes net i, both
\* as the lookup computes it in the state after the call and as returned by a
\* psub(k) (nwell(k)) call made next.
C13_AddClassifies ==
    [][/\ \A op \in {"addPsubIdx", "addNwellIdx"} :
            (Step(op) /\ lastOp'.arg < Len(netArray)) =>
                /\ ClassList(op, psubIdxArray', nwellIdxArray')
                      = Append(ClassList(op, psubIdxArray, nwellIdxArray), lastOp'.arg)
                /\ OtherClassList(op, psubIdxArray', nwellIdxArray')
                      = OtherClassList(op, psubIdxArray, nwellIdxArray)
                /\ UNCHANGED <<nodeArray, pinArray, netArray>>
                /\ status' = "ok"
                /\ Classified(ClassList(op, psubIdxArray', nwellIdxArray'), netArray',
                              Len(ClassList(op, psubIdxArray, nwellIdxArray)))
                      = [st |-> "ok", idx |-> lastOp'.arg]
       /\ \A op \in {"psub", "nwell"} :
            (/\ Step(op)
             /\ lastOp.op = (IF op = "psub" THEN "addPsubIdx" ELSE "addNwellIdx")
             /\ lastOp.arg < Len(netArray)
             /\ lastOp'.arg = Len(ClassList(op, psubIdxArray, nwellIdxArray)) - 1) =>
                /\ status' = "ok"
                /\ lastOp'.ret = lastOp.arg]_vars

\* net 0 is on the psub list twice and on the nwell list as well
C13_Witness ==
    /\ lastOp.op = "addNwellIdx"
    /\ status = "ok"
    /\ Len(netArray) = 1
    /\ psubIdxArray = <<0, 0>>
    /\ nwellIdxArray = <<0>>
    /\ Classified(psubIdxArray, netArray, 1).idx = Classified(nwellIdxArray, netArray, 0).idx

\* the collection node(idx), pin(idx) or net(idx) looks idx up in
AccessedArray(op, nodes, pins, nets) ==
    IF op = "node" THEN nodes ELSE IF op = "pin" THEN pins ELSE nets

\* C14: node(idx), pin(idx) and net(idx) fail with the out-of-bounds error and
\* change nothing when idx is at or above the size of their collection, and
\* succeed when idx is below it; psub(k) and nwell(k) fail the same way
\* exactly when k is at or above the length of their list or the entry stored
\* at k is at or above the number of nets, and succeed otherwise.
C14_AccessBoundsChecked ==
    [][/\ \A op \in {"node", "pin", "net"} : Step(op) =>
            IF lastOp'.arg >= Len(AccessedArray(op, nodeArray, pinArray, netArray))
            THEN /\ status' = "out_of_range"
                 /\ UNCHANGED <<storeVars, snapScalars, techDB, nameVars, implVars,
                                fpData, backupSlot>>
            ELSE status' = "ok"
       /\ \A op \in {"psub", "nwell"} : Step(op) =>
            LET list == ClassList(op, psubIdxArray, nwellIdxArray)
                k == lastOp'.arg
            IN  IF k >= Len(list) \/ list[k + 1] >= Len(netArray)
                THEN /\ status' = "out_of_range"
                     /\ UNCHANGED <<storeVars, snapScalars, techDB, nameVars, implVars,
                                    fpData, backupSlot>>
                ELSE /\ status' = "ok"
                     /\ lastOp'.ret = list[k + 1]]_vars

\* psub(0) where the list has an entry at 0 that is not a net
C14_Witness ==
    /\ lastOp.op = "psub"
    /\ status = "out_of_range"
    /\ lastOp.arg < Len(psubIdxArray)
    /\ psubIdxArray[lastOp.arg + 1] >= Len(netArray)

\* C15: netAssignment(name) returns -1 for a name setNetAssignment was never
\* called on and the side of the latest setNetAssignment(name, s) call
\* otherwise, and adds no entry to the mapping; setNetAssignment(name, s)
\* makes the entry of name s and leaves the entries (and the absence) of the
\* other names as they were.
C15_NetAssignmentUpsert ==
    [][/\ Step("netAssignment") =>
            /\ fpData' = fpData
            /\ lastOp'.ret = IF lastOp'.key \in DOMAIN hist.lastSet
                             THEN hist.lastSet[lastOp'.key] ELSE -1
       /\ Step("setNetAssignment") =>
            /\ DOMAIN fpData'.netNameToAssignMap
                  = DOMAIN fpData.netNameToAssignMap \cup {lastOp'.key}
            /\ fpData'.netNameToAssignMap[lastOp'.key] = lastOp'.arg
            /\ \A n \in DOMAIN fpData.netNameToAssignMap \ {lastOp'.key} :
                  fpData'.netNameToAssignMap[n] = fpData.netNameToAssignMap[n]]_vars

\* a query for a name never set, on a mapping that has an entry for another name
C15_Witness ==
    /\ lastOp.op = "netAssignment"
    /\ lastOp.key \notin DOMAIN hist.lastSet
    /\ hist.lastSet # <<>>
    /\ lastOp.ret = -1
    /\ DOMAIN fpData.netNameToAssignMap = DOMAIN hist.lastSet

\* C16: clearNetAssignment() makes the assignment flag false and keeps the
\* name-to-side mapping, so that every name still has the side it had;
\* clearBoundary() makes the boundary flag false and keeps the stored
\* coordinates; setting or clearing the boundary never changes the assignment
\* flag or the mapping, and setting or clearing the assignment never changes
\* the boundary flag or the coordinates.
C16_LazyInvalidation ==
    [][/\ Step("clearNetAssignment") =>
            /\ fpData' = [fpData EXCEPT !.isNetAssignmentSet = FALSE]
            /\ ~fpData'.isNetAssignmentSet
            /\ \A n \in Names : NetAssignmentOf(fpData'.netNameToAssignMap, n)
                                   = NetAssignmentOf(fpData.netNameToAssignMap, n)
       /\ Step("clearBoundary") =>
            /\ fpData' = [fpData EXCEPT !.isBoundarySet = FALSE]
            /\ ~fpData'.isBoundarySet
       /\ Step("setBoundary") =>
            /\ fpData'.isBoundarySet
            /\ fpData'.isNetAssignmentSet = fpData.isNetAssignmentSet
            /\ fpData'.netNameToAssignMap = fpData.netNameToAssignMap
       /\ Step("setNetAssignment") =>
            /\ fpData'.isNetAssignmentSet
            /\ fpData'.isBoundarySet = fpData.isBoundarySet
            /\ fpData'.boundary = fpData.boundary]_vars

\* the assignment was cleared while a boundary is set: the entry is still there
C16_Witness ==
    /\ lastOp.op = "clearNetAssignment"
    /\ ~fpData.isNetAssignmentSet
    /\ fpData.isBoundarySet
    /\ fpData.boundary = <<0, 0, 1, 1>>
    /\ \E n \in Names : NetAssignmentOf(fpData.netNameToAssignMap, n) = 1

\* every entry of both classification lists denotes a net of nets
ClassificationValid(nets, psubs, nwells) ==
    /\ \A k \in 1..Len(psubs) : psubs[k] < Len(nets)
    /\ \A k \in 1..Len(nwells) : nwells[k] < Len(nets)

C18_RestoreAssertNeverFails ==
    (lastOp.op = "restore" /\ hist.nBackups >= 1) =>
        (status # "assert" /\ layout.xLo = LOC_TYPE_MAX)

\* C19: backup() changes only the checkpoint slot: the collections, both
\* lists, layout, implemented flag, flip flag, geometry data, implType,
\* implIdx, name, reference name, floorplan data and technology binding are
\* after the call what they were before it, and the slot then equals the
\* live snapshotted fields.
C19_BackupChangesOnlySlot ==
    [][Step("backup") =>
        /\ UNCHANGED <<nodeArray, pinArray, netArray, psubIdxArray, nwellIdxArray,
                       layout, isImplemented, flipVertFlag, gdsData,
                       implType, implIdx, name, refName, fpData, techDB>>
        /\ status' = "ok"
        /\ backupSlot' = Live']_vars

\* a backup of a graph that has a node and a non-default implementation type
C19_Witness ==
    /\ lastOp.op = "backup"
    /\ nodeArray # <<>>
    /\ implType = "CMOS"
    /\ backupSlot = Live
    /\ backupSlot.nodeArray = nodeArray

====
